---- MODULE Spec2Model ----
(***************************************************************************)
(* Room store of the chat demo: the localStorage blob under ROOMS_KEY, the *)
(* repository functions over it (getRooms, saveRoom, deleteRoom,           *)
(* createRoom, addMessage, addMemo, deleteMemo) and the change events.     *)
(*                                                                         *)
(* Spec      every repository call runs to completion (one browser tab,    *)
(*           synchronous code); `call` records the last completed call.    *)
(* ConcSpec  two tabs whose calls interleave at each localStorage access.  *)
(* MemoSpec  the memo calls alone, with three memos.                       *)
(* AppSpec   two tabs running the App component, one handler at a time.    *)
(* TypingSpec  two tabs running the typing handlers of ChatInterface.      *)
(***************************************************************************)
EXTENDS Integers, Sequences, FiniteSets, TLC

VARIABLES blob, call, tab

vars == <<blob, call, tab>>

(* ------------------------------ bounds -------------------------------- *)

\* most messages and memos, over all rooms, the collection is grown to
MaxEntries == 5

\* most calls the tabs of ConcSpec make, all tabs together
MaxCalls == 3

\* most handlers that call the store the tabs of AppSpec run, all tabs together
MaxActs == 2

\* most handlers that call the store the tabs of TypingSpec run, all tabs together
MaxKeys == 3

(* --------------------------- values and inputs ------------------------ *)

\* the JavaScript value undefined (also what a missing property reads as)
Undefined == "undefined"

UserRole == [ADMIN |-> "ADMIN", PARTICIPANT |-> "PARTICIPANT"]

\* outcomes of the random id generators (randomUUID / Math.random)
RoomIds == {"r1", "r2"}

SysMsgIds == {"s1"}

\* createRoom's inputs: title, password? and the reading of the clock at the
\* call: getFullYear(), getMonth() (0-based), getDate(), Date.now()
CreateArgs ==
    { [title |-> "Standup", password |-> Undefined,
       now |-> [year |-> 2025, month |-> 0, date |-> 31, ms |-> 1]],
      [title |-> "Secret", password |-> "xyz",
       now |-> [year |-> 2025, month |-> 11, date |-> 1, ms |-> 2]] }

\* messages handed to addMessage
Msgs == { [id |-> "m1", senderName |-> "Ana", role |-> UserRole.PARTICIPANT,
           text |-> "hi", timestamp |-> 3, type |-> "text"],
          [id |-> "m2", senderName |-> "AI Bot", role |-> UserRole.ADMIN,
           text |-> "ok", timestamp |-> 4, type |-> "text"] }

\* memos handed to addMemo
Memos == { [id |-> "k1", title |-> "Plan A", content |-> "Details", createdAt |-> 5],
           [id |-> "k2", title |-> "Plan B", content |-> "More", createdAt |-> 6] }

MemoIds == {"k1", "k2"}

(* ------------------------- JavaScript / JSON values ------------------- *)

\* a JavaScript array
JSArray(items) == [t |-> "array", items |-> items]

EmptyArray == JSArray(<< >>)

IsArray(v) == v.t = "array"

\* well-formed JSON documents that are not arrays: null, {}, 7, "x", true
NonArrayJson == { [t |-> "null"], [t |-> "object"], [t |-> "number"],
                  [t |-> "string"], [t |-> "boolean"] }

\* obj[k] in JavaScript: a missing property reads as undefined
Field(obj, k) == IF k \in DOMAIN obj THEN obj[k] ELSE Undefined

\* JSON.stringify of a room: a property whose value is undefined is left out
StringifyRoom(room) ==
    IF Field(room, "password") = Undefined
    THEN [k \in DOMAIN room \ {"password"} |-> room[k]]
    ELSE room

\* the item of localStorage: no item, the empty string, text that is not
\* JSON, or the JSON text of a value
NoItem == [kind |-> "absent"]

EmptyText == [kind |-> "empty"]

MalformedText == [kind |-> "malformed"]

JsonText(v) == [kind |-> "json", val |-> v]

\* JSON.stringify(rooms)
JSONStringify(v) ==
    IF IsArray(v)
    THEN JsonText(JSArray([i \in DOMAIN v.items |-> StringifyRoom(v.items[i])]))
    ELSE JsonText(v)

\* the completion of an expression that throws error e instead of giving a value
Thrown(e) == [t |-> "thrown", error |-> e]

IsThrown(v) == v.t = "thrown"

\* JSON.parse(stored): throws SyntaxError on text that is not JSON
JSONParse(stored) ==
    IF stored.kind = "json" THEN stored.val ELSE Thrown("SyntaxError")

\* truthiness of what localStorage.getItem returned: null and "" are falsy
Truthy(stored) == stored.kind \notin {"absent", "empty"}

(* ------------------------------ the store ------------------------------ *)

\* getRooms() whose catch returns null in place of []
GetRoomsNullOnError(b) ==
    IF ~Truthy(b) THEN EmptyArray
    ELSE LET parsed == JSONParse(b)
         IN  IF IsThrown(parsed) THEN [t |-> "null"] ELSE parsed

\* getRooms() without its try/catch: the SyntaxError of JSON.parse gets out
GetRoomsNoCatch(b) ==
    IF ~Truthy(b) THEN EmptyArray ELSE JSONParse(b)

\* getRooms(): try { stored ? JSON.parse(stored) : [] } catch { [] }
GetRooms(b) ==
    IF ~Truthy(b) THEN EmptyArray
    ELSE LET parsed == JSONParse(b)
         IN  IF IsThrown(parsed) THEN EmptyArray ELSE parsed

\* what using `rooms` as an array raises: an error getRooms() let through, or
\* the TypeError of calling findIndex / find / filter on a value without them
ArrayError(rooms) ==
    IF IsThrown(rooms) THEN rooms.error
    ELSE IF ~IsArray(rooms) THEN "TypeError"
    ELSE "none"

\* notifyChanges() that dispatches 'storage' alone
NotifyStorageOnly == << "storage" >>

\* notifyChanges(): the two events, in the order they are dispatched
NotifyChanges == << "storage", "storage-local" >>

\* rooms.findIndex(r => r.id === id): 0 stands for JavaScript's -1
FindIndex(items, id) ==
    IF \E i \in DOMAIN items : items[i].id = id
    THEN CHOOSE i \in DOMAIN items :
            /\ items[i].id = id
            /\ \A j \in DOMAIN items : items[j].id = id => i <= j
    ELSE 0

\* an outcome of a call: the blob it leaves, what it returns, what it raises
\* and the storage accesses and events it performed, in order
Outcome(b, ret, raised, trace) ==
    [blob |-> b, ret |-> ret, raised |-> raised, trace |-> trace]

NoValue == [t |-> "undefined"]

\* saveRoom that writes the given room alone, without a getRooms() before
SaveRoomAlone(items, room) == << room >>

\* saveRoom that takes the room with the same id out and pushes the new one
SaveRoomMoveLast(items, room) ==
    Append(SelectSeq(items, LAMBDA r : r.id # room.id), room)

\* saveRoom that pushes the room without looking for one with the same id
SaveRoomPush(items, room) == Append(items, room)

\* saveRoom, the part between its getRooms() and its setItem: replace in
\* place the room with the same id, or push
SaveRoomUpdate(items, room) ==
    LET existingIndex == FindIndex(items, room.id)
    IN  IF existingIndex > 0
        THEN [items EXCEPT ![existingIndex] = room]
        ELSE Append(items, room)

\* saveRoom(room)
SaveRoom(b, room) ==
    LET rooms == GetRooms(b)
    IN  IF ArrayError(rooms) # "none"
        THEN Outcome(b, NoValue, ArrayError(rooms), << "getItem" >>)
        ELSE Outcome(JSONStringify(JSArray(SaveRoomUpdate(rooms.items, room))),
                     NoValue, "none",
                     << "getItem", "setItem" >> \o NotifyChanges)

\* rooms.splice(rooms.findIndex(r => r.id === roomId)) in place of the
\* filter: drops the room and every room after it, or the last room when no
\* room has the id
SpliceRooms(items, roomId) ==
    LET idx == FindIndex(items, roomId)
    IN  SubSeq(items, 1, IF idx > 0 THEN idx - 1 ELSE Len(items) - 1)

\* the filter of deleteRoom with its test inverted (=== for !==)
FilterRoomsInverted(items, roomId) ==
    SelectSeq(items, LAMBDA r : r.id = roomId)

\* rooms.filter(r => String(r.id) !== String(roomId)); ids are strings
FilterRooms(items, roomId) ==
    SelectSeq(items, LAMBDA r : r.id # roomId)

\* deleteRoom(roomId)
DeleteRoom(b, roomId) ==
    LET rooms == GetRooms(b)
    IN  IF ArrayError(rooms) # "none"
        THEN Outcome(b, NoValue, ArrayError(rooms), << "getItem" >>)
        ELSE Outcome(JSONStringify(JSArray(FilterRooms(rooms.items, roomId))),
                     NoValue, "none",
                     << "getItem", "setItem" >> \o NotifyChanges)

\* the banner with getMonth() used as it is, 0-based
DateTextRawMonth(now) == << now.year, "Y", now.month, "M", now.date, "D" >>

\* the creation-date banner `${year}Y ${month + 1}M ${date}D`, where Y, M and
\* D stand for the Korean words for year, month and day of the source
DateText(now) == << now.year, "Y", now.month + 1, "M", now.date, "D" >>

\* the room createRoom builds before it saves it
NewRoom(id, msgId, title, password, now) ==
    [ id        |-> id,
      title     |-> title,
      password  |-> password,
      messages  |-> << [ id         |-> msgId,
                         senderName |-> "System",
                         role       |-> UserRole.ADMIN,
                         text       |-> DateText(now),
                         timestamp  |-> now.ms,
                         type       |-> "system" ] >>,
      memos     |-> << >>,
      createdAt |-> now.ms,
      createdBy |-> "AI Bot" ]

\* createRoom(title, password): id and msgId are what the generators gave
CreateRoom(b, id, msgId, title, password, now) ==
    LET newRoom == NewRoom(id, msgId, title, password, now)
        s       == SaveRoom(b, newRoom)
    IN  Outcome(s.blob,
                IF s.raised = "none" THEN [t |-> "room", room |-> newRoom] ELSE NoValue,
                s.raised, s.trace)

\* room.messages.push(message) that also empties the memos of the room
PushMessageClearMemos(room, message) ==
    [room EXCEPT !.messages = Append(@, message), !.memos = << >>]

\* room.messages.unshift(message): the message put first
UnshiftMessage(room, message) == [room EXCEPT !.messages = << message >> \o @]

\* room.messages.push(message)
PushMessage(room, message) == [room EXCEPT !.messages = Append(@, message)]

\* room.memos.unshift(memo): the memo put first
UnshiftMemo(room, memo) == [room EXCEPT !.memos = << memo >> \o @]

\* room.memos.push(memo)
PushMemo(room, memo) == [room EXCEPT !.memos = Append(@, memo)]

\* room.memos.splice(room.memos.findIndex(m => m.id === memoId), 1): removes
\* the first memo with the id and, when there is none (index -1), the last memo
SpliceMemo(room, memoId) ==
    LET idx == FindIndex(room.memos, memoId)
        cut == IF idx > 0 THEN idx ELSE Len(room.memos)
    IN  [room EXCEPT !.memos =
            [i \in 1..(Len(@) - (IF Len(@) > 0 THEN 1 ELSE 0)) |->
                IF i < cut THEN @[i] ELSE @[i + 1]]]

\* room.memos = room.memos.filter(m => m.id !== memoId)
FilterMemos(room, memoId) ==
    [room EXCEPT !.memos = SelectSeq(@, LAMBDA m : m.id # memoId)]

\* saveRoom(room) called by an operation that has already run its own getRooms()
SaveFound(b, room) ==
    LET s == SaveRoom(b, room)
    IN  Outcome(s.blob, NoValue, s.raised, << "getItem" >> \o s.trace)

\* the operation returns without a write: `if (room)` found no room
NotFound(b) == Outcome(b, NoValue, "none", << "getItem" >>)

\* addMessage without `if (room)`: room.messages of undefined is a TypeError
AddMessageNoGuard(b, roomId, message) ==
    LET rooms == GetRooms(b)
    IN  IF ArrayError(rooms) # "none"
        THEN Outcome(b, NoValue, ArrayError(rooms), << "getItem" >>)
        ELSE LET idx == FindIndex(rooms.items, roomId)
             IN  IF idx = 0 THEN Outcome(b, NoValue, "TypeError", << "getItem" >>)
                 ELSE SaveFound(b, PushMessage(rooms.items[idx], message))

\* addMessage(roomId, message)
AddMessage(b, roomId, message) ==
    LET rooms == GetRooms(b)
    IN  IF ArrayError(rooms) # "none"
        THEN Outcome(b, NoValue, ArrayError(rooms), << "getItem" >>)
        ELSE LET idx == FindIndex(rooms.items, roomId)
             IN  IF idx = 0 THEN NotFound(b)
                 ELSE SaveFound(b, PushMessage(rooms.items[idx], message))

\* addMemo(roomId, memo)
AddMemo(b, roomId, memo) ==
    LET rooms == GetRooms(b)
    IN  IF ArrayError(rooms) # "none"
        THEN Outcome(b, NoValue, ArrayError(rooms), << "getItem" >>)
        ELSE LET idx == FindIndex(rooms.items, roomId)
             IN  IF idx = 0 THEN NotFound(b)
                 ELSE SaveFound(b, PushMemo(rooms.items[idx], memo))

\* deleteMemo(roomId, memoId)
DeleteMemo(b, roomId, memoId) ==
    LET rooms == GetRooms(b)
    IN  IF ArrayError(rooms) # "none"
        THEN Outcome(b, NoValue, ArrayError(rooms), << "getItem" >>)
        ELSE LET idx == FindIndex(rooms.items, roomId)
             IN  IF idx = 0 THEN NotFound(b)
                 ELSE SaveFound(b, FilterMemos(rooms.items[idx], memoId))

(* ------------------------- reading a collection ----------------------- *)

\* the rooms a getRooms() on blob b returns (none when it is not an array)
Loaded(b) == IF IsArray(GetRooms(b)) THEN GetRooms(b).items ELSE << >>

IdsIn(items) == { items[i].id : i \in DOMAIN items }

HasRoom(b, id) == id \in IdsIn(Loaded(b))

\* rooms.find(r => r.id === id) on a collection that has such a room
RoomOf(b, id) == Loaded(b)[FindIndex(Loaded(b), id)]

\* the rooms with this id, in collection order
RoomsWithId(items, id) == SelectSeq(items, LAMBDA r : r.id = id)

\* the number of messages and memos of a collection
RECURSIVE Entries(_)
Entries(items) ==
    IF items = << >> THEN 0
    ELSE Len(Head(items).messages) + Len(Head(items).memos) + Entries(Tail(items))

\* may the model still grow the collection by one message or memo
CanGrow(b) == Entries(Loaded(b)) < MaxEntries

(* -------------------- Spec: calls run to completion ------------------- *)

NoArg == [none |-> TRUE]

\* a tab that has made no call yet (the fields are those of TabState below)
IdleTab ==
    [pc |-> "idle", op |-> "none", roomId |-> Undefined, arg |-> NoArg, room |-> NoValue,
     rooms |-> << >>, stale |-> FALSE, result |-> "none", calls |-> 0]

\* no call has completed yet
NoCall ==
    [op |-> "none", roomId |-> Undefined, arg |-> NoArg, ret |-> NoValue,
     raised |-> "none", trace |-> << >>, again |-> FALSE]

Tabs == {"A", "B"}

\* the blobs a tab can find at its first call
InitBlobs == { NoItem, EmptyText, MalformedText, JsonText(EmptyArray) }
             \cup { JsonText(v) : v \in NonArrayJson }

Init ==
    /\ blob \in InitBlobs
    /\ call = NoCall
    /\ tab = [t \in Tabs |-> IdleTab]

\* a call completes with outcome o
Complete(op, roomId, arg, o) ==
    /\ blob' = o.blob
    /\ call' = [op |-> op, roomId |-> roomId, arg |-> arg, ret |-> o.ret,
                raised |-> o.raised, trace |-> o.trace,
                again |-> (call.op = op /\ call.roomId = roomId /\ call.arg = arg)]
    /\ UNCHANGED tab

GetRoomsCall ==
    LET rooms == GetRooms(blob)
    IN  Complete("getRooms", Undefined, NoArg,
                 Outcome(blob, IF IsThrown(rooms) THEN NoValue ELSE rooms,
                         IF IsThrown(rooms) THEN rooms.error ELSE "none",
                         << "getItem" >>))

\* saveRoom(x) for a room x that getRooms() returned
SaveRoomCall ==
    \E i \in DOMAIN Loaded(blob) :
        Complete("saveRoom", Loaded(blob)[i].id, [room |-> Loaded(blob)[i]],
                 SaveRoom(blob, Loaded(blob)[i]))

DeleteRoomCall ==
    \E r \in RoomIds :
        Complete("deleteRoom", r, NoArg, DeleteRoom(blob, r))

CreateRoomCall ==
    \E id \in RoomIds, mid \in SysMsgIds, a \in CreateArgs :
        /\ CanGrow(blob) \/ HasRoom(blob, id)
        /\ Complete("createRoom", Undefined, a,
                    CreateRoom(blob, id, mid, a.title, a.password, a.now))

AddMessageCall ==
    \E r \in RoomIds, m \in Msgs :
        /\ CanGrow(blob) \/ ~HasRoom(blob, r)
        /\ Complete("addMessage", r, [message |-> m], AddMessage(blob, r, m))

AddMemoCall ==
    \E r \in RoomIds, m \in Memos :
        /\ CanGrow(blob) \/ ~HasRoom(blob, r)
        /\ Complete("addMemo", r, [memo |-> m], AddMemo(blob, r, m))

DeleteMemoCall ==
    \E r \in RoomIds, k \in MemoIds :
        Complete("deleteMemo", r, [memoId |-> k], DeleteMemo(blob, r, k))

Next ==
    \/ GetRoomsCall
    \/ SaveRoomCall
    \/ DeleteRoomCall
    \/ CreateRoomCall
    \/ AddMessageCall
    \/ AddMemoCall
    \/ DeleteMemoCall

Spec == Init /\ [][Next]_vars

(* --------------- ConcSpec: two tabs, interleaved accesses -------------- *)

\* A tab runs the same functions, one localStorage access at a time; between
\* two accesses of one tab the other tab may run. tab[t] holds the call the
\* tab is in (or the last one it completed), the locals of that call and
\*   pc      "idle", "save_load" (before saveRoom's getRooms()), "save_write"
\*           (before saveRoom's setItem), "delete_write" (before deleteRoom's
\*           setItem)
\*   room    the room handed to saveRoom
\*   rooms   the array the pending setItem will stringify
\*   stale   another tab has written since this tab's last getRooms()
\*   result  how the last call ended: "ok" (it wrote), "noop" or the error
\*   calls   the number of calls the tab has made
TabState(pc, op, roomId, arg, room, rooms, stale, result, calls) ==
    [pc |-> pc, op |-> op, roomId |-> roomId, arg |-> arg, room |-> room,
     rooms |-> rooms, stale |-> stale, result |-> result, calls |-> calls]

\* tab t is between two calls and may make another
CanCall(t) == tab[t].pc = "idle" /\ tab["A"].calls + tab["B"].calls < MaxCalls

\* the two rooms the tabs start with, as two createRoom calls left them
StartRooms ==
    LET a1 == CHOOSE a \in CreateArgs : a.password = Undefined
        a2 == CHOOSE a \in CreateArgs : a.password # Undefined
    IN  << NewRoom("r1", "s1", a1.title, a1.password, a1.now),
           NewRoom("r2", "s1", a2.title, a2.password, a2.now) >>

ConcInit ==
    /\ blob = JSONStringify(JSArray(StartRooms))
    /\ call = NoCall
    /\ tab = [t \in Tabs |-> IdleTab]

\* the call returns at once: nothing found, or an error
Return(t, op, roomId, arg, result) ==
    /\ tab' = [tab EXCEPT ![t] =
                 TabState("idle", op, roomId, arg, NoValue, << >>, FALSE, result,
                           tab[t].calls + (IF tab[t].pc = "idle" THEN 1 ELSE 0))]
    /\ UNCHANGED <<blob, call>>

\* addMessage / addMemo / deleteMemo up to their call of saveRoom:
\* getRooms(), find, change the room found
FindStep(t, op, roomId, arg, changed) ==
    LET rooms == GetRooms(blob)
    IN  IF ArrayError(rooms) # "none" THEN Return(t, op, roomId, arg, ArrayError(rooms))
        ELSE IF FindIndex(rooms.items, roomId) = 0 THEN Return(t, op, roomId, arg, "noop")
        ELSE /\ tab' = [tab EXCEPT ![t] =
                          TabState("save_load", op, roomId, arg, changed,
                                   << >>, FALSE, "none", tab[t].calls + 1)]
             /\ UNCHANGED <<blob, call>>

\* each tab sends the messages and posts the memos of its own session
MsgOf(t) == CHOOSE m \in Msgs : m.id = (IF t = "A" THEN "m1" ELSE "m2")

MemoOf(t) == CHOOSE m \in Memos : m.id = (IF t = "A" THEN "k1" ELSE "k2")

StartAddMessage(t) ==
    \E r \in RoomIds, m \in {MsgOf(t)} :
        /\ CanCall(t)
        /\ CanGrow(blob) \/ ~HasRoom(blob, r)
        /\ FindStep(t, "addMessage", r, [message |-> m],
                    IF HasRoom(blob, r) THEN PushMessage(RoomOf(blob, r), m) ELSE NoValue)

StartAddMemo(t) ==
    \E r \in RoomIds, m \in {MemoOf(t)} :
        /\ CanCall(t)
        /\ CanGrow(blob) \/ ~HasRoom(blob, r)
        /\ FindStep(t, "addMemo", r, [memo |-> m],
                    IF HasRoom(blob, r) THEN PushMemo(RoomOf(blob, r), m) ELSE NoValue)

StartDeleteMemo(t) ==
    \E r \in RoomIds, k \in MemoIds :
        /\ CanCall(t)
        /\ FindStep(t, "deleteMemo", r, [memoId |-> k],
                    IF HasRoom(blob, r) THEN FilterMemos(RoomOf(blob, r), k) ELSE NoValue)

\* deleteRoom up to its setItem: getRooms() and the filter
StartDeleteRoom(t) ==
    \E r \in RoomIds :
        /\ CanCall(t)
        /\ LET rooms == GetRooms(blob)
           IN  IF ArrayError(rooms) # "none"
               THEN Return(t, "deleteRoom", r, NoArg, ArrayError(rooms))
               ELSE /\ tab' = [tab EXCEPT ![t] =
                                 TabState("delete_write", "deleteRoom", r, NoArg, NoValue,
                                          FilterRooms(rooms.items, r), FALSE, "none",
                                          tab[t].calls + 1)]
                    /\ UNCHANGED <<blob, call>>

\* saveRoom up to its setItem: getRooms(), then replace or push
SaveLoad(t) ==
    /\ tab[t].pc = "save_load"
    /\ LET rooms == GetRooms(blob)
       IN  IF ArrayError(rooms) # "none"
           THEN Return(t, tab[t].op, tab[t].roomId, tab[t].arg, ArrayError(rooms))
           ELSE /\ tab' = [tab EXCEPT ![t].pc = "save_write",
                                      ![t].rooms = SaveRoomUpdate(rooms.items, tab[t].room),
                                      ![t].stale = FALSE]
                /\ UNCHANGED <<blob, call>>

\* a write that reads the item again and replaces in it the one room it saves
SetItemMerged(b, rooms, room) ==
    JSONStringify(JSArray(SaveRoomUpdate(Loaded(b), room)))

\* localStorage.setItem(ROOMS_KEY, JSON.stringify(rooms)) replaces the item,
\* whatever item b another tab has written in the meantime
SetItem(b, rooms, room) == JSONStringify(JSArray(rooms))

\* the tabs that have read the item and not yet written: their copy is now old
Outdated(t) ==
    [u \in Tabs |->
        IF u = t
        THEN [tab[t] EXCEPT !.pc = "idle", !.room = NoValue, !.rooms = << >>,
                            !.result = "ok"]
        ELSE IF tab[u].pc \in {"save_write", "delete_write"}
             THEN [tab[u] EXCEPT !.stale = TRUE]
             ELSE tab[u]]

\* the setItem of saveRoom (the events that follow it are in NotifyChanges)
SaveWrite(t) ==
    /\ tab[t].pc = "save_write"
    /\ blob' = SetItem(blob, tab[t].rooms, tab[t].room)
    /\ tab' = Outdated(t)
    /\ UNCHANGED call

\* the setItem of deleteRoom
DeleteWrite(t) ==
    /\ tab[t].pc = "delete_write"
    /\ blob' = JSONStringify(JSArray(tab[t].rooms))
    /\ tab' = Outdated(t)
    /\ UNCHANGED call

ConcNext ==
    \E t \in Tabs :
        \/ StartAddMessage(t)
        \/ StartAddMemo(t)
        \/ StartDeleteMemo(t)
        \/ StartDeleteRoom(t)
        \/ SaveLoad(t)
        \/ SaveWrite(t)
        \/ DeleteWrite(t)

ConcSpec == ConcInit /\ [][ConcNext]_vars

(* ------------- MemoSpec: addMemo and deleteMemo, three memos ----------- *)

\* The calls of Spec that change memos, on the two rooms of StartRooms and
\* with a third memo, so that a deleteMemo leaves memos that differ.
PlanC == [id |-> "k3", title |-> "Plan C", content |-> "Extra", createdAt |-> 7]

AllMemos == Memos \cup { PlanC }

AllMemoIds == { m.id : m \in AllMemos }

MemoInit ==
    /\ blob = JSONStringify(JSArray(StartRooms))
    /\ call = NoCall
    /\ tab = [t \in Tabs |-> IdleTab]

AddAnyMemo ==
    \E r \in RoomIds, m \in AllMemos :
        /\ CanGrow(blob)
        /\ Complete("addMemo", r, [memo |-> m], AddMemo(blob, r, m))

DeleteAnyMemo ==
    \E r \in RoomIds, k \in AllMemoIds :
        Complete("deleteMemo", r, [memoId |-> k], DeleteMemo(blob, r, k))

MemoNext == AddAnyMemo \/ DeleteAnyMemo

MemoSpec == MemoInit /\ [][MemoNext]_vars

(* ---------------- AppSpec: the App component of each tab --------------- *)

\* The tabs run the App of index.tsx over the same localStorage item. A
\* handler runs to completion (one event-loop task); the repository calls it
\* makes are the functions above. tab[t] holds the React state of the App in
\* tab t:
\*   rooms           the room list shown in Browsing
\*   currentRoom     the room of the chat view, or null
\*   currentUser     the session {username, role}, or null
\*   joinModalRoom   the room of the join prompt, or null
\*   isAdminMode     admin mode is unlocked
\*   joinError       the join prompt shows 'Incorrect password'
\*   signal          a 'storage' event of another tab's write is queued for
\*                   this tab and not yet handled
\* and `call` records the last repository call, the tab that made it and the
\* number of handlers that have called the store.

\* a text typed into an input is the sequence of its characters
IsSpace(c) == c = " "

RECURSIVE TrimStart(_)
TrimStart(s) == IF s # << >> /\ IsSpace(Head(s)) THEN TrimStart(Tail(s)) ELSE s

RECURSIVE TrimEnd(_)
TrimEnd(s) ==
    IF s # << >> /\ IsSpace(s[Len(s)]) THEN TrimEnd(SubSeq(s, 1, Len(s) - 1)) ELSE s

\* s.trim()
Trim(s) == TrimEnd(TrimStart(s))

\* !s.trim(): the text is empty or has only whitespace
Blank(s) == Trim(s) = << >>

\* the JavaScript value null
Null == [t |-> "null"]

\* the username of the admin session, 'AI Bot', as a text
BotName == << "A", "I", " ", "B", "o", "t" >>

\* nicknames typed into the join prompt
Nicknames == { << >>, << " " >>, << " ", "B", "o" >> }

\* the user of tab A, who knows the PIN, leaves the nickname empty; the user
\* of tab B types ' ' and ' Bo'
NicknamesOf(t) ==
    IF t = "A" THEN { n \in Nicknames : n = << >> } ELSE { n \in Nicknames : n # << >> }

\* passwords typed into the join prompt ('' when the field is left alone)
Passwords == { "", "abc", "xyz", "XYZ" }

\* PINs typed into the admin login
Pins == { "331133", "0000" }

\* the user of tab A knows the PIN, the user of tab B does not
PinsOf(t) == IF t = "A" THEN Pins ELSE Pins \ { "331133" }

\* texts typed into the message input
Typed == { << >>, << " ", " " >>, << "h", "i" >>, << " ", "o", "k", " " >> }

\* the input of tab A gets the blank texts and 'hi', that of B ' ok '
TypedOf(t) ==
    { x \in Typed : Blank(x) \/ (Head(x) = "h" <=> t = "A") }

\* title and content typed into the add-plan panel
MemoInputs ==
    { [title |-> << "P", "1" >>, content |-> << "D" >>],
      [title |-> << " " >>, content |-> << "D" >>],
      [title |-> << "P", "2" >>, content |-> << >>] }

\* truthiness of a password: undefined and '' are falsy
TruthyPassword(p) == p # Undefined /\ p # ""

\* what the 'New Room' form is filled with: a title and a password
FormArgs == { a \in CreateArgs : TruthyPassword(a.password) }

AppState(rooms, currentRoom, currentUser, joinModalRoom, joinError, isAdminMode, signal) ==
    [rooms |-> rooms, currentRoom |-> currentRoom, currentUser |-> currentUser,
     joinModalRoom |-> joinModalRoom, joinError |-> joinError,
     isAdminMode |-> isAdminMode, signal |-> signal]

\* x put into the list s, which is sorted by createdAt, largest first; x came
\* before the rooms of s, so it stays before those with the same createdAt
InsertRoom(x, s) ==
    LET k == Cardinality({ i \in DOMAIN s : s[i].createdAt > x.createdAt })
    IN  SubSeq(s, 1, k) \o << x >> \o SubSeq(s, k + 1, Len(s))

\* loadedRooms.sort((a, b) => b.createdAt - a.createdAt): a stable sort
RECURSIVE SortRooms(_)
SortRooms(items) ==
    IF items = << >> THEN << >>
    ELSE InsertRoom(Head(items), SortRooms(Tail(items)))

\* loadRooms() that sets the room list and leaves the current room alone
LoadRoomsListOnly(s, b) ==
    LET loadedRooms == GetRooms(b)
    IN  IF ArrayError(loadedRooms) # "none" THEN s
        ELSE [s EXCEPT !.rooms = SortRooms(loadedRooms.items)]

\* loadRooms() that sets the current room to null when its id is not found
LoadRoomsClearMissing(s, b) ==
    LET loadedRooms == GetRooms(b)
    IN  IF ArrayError(loadedRooms) # "none" THEN s
        ELSE LET sorted == SortRooms(loadedRooms.items)
                 idx    == IF s.currentRoom = Null THEN 0
                           ELSE FindIndex(sorted, s.currentRoom.id)
             IN  [s EXCEPT !.rooms = sorted,
                           !.currentRoom = IF idx > 0 THEN sorted[idx] ELSE Null]

\* loadRooms() that moves the chat view to the first room of the list when
\* the id of the current room is not found
LoadRoomsFirstOnMissing(s, b) ==
    LET loadedRooms == GetRooms(b)
    IN  IF ArrayError(loadedRooms) # "none" THEN s
        ELSE LET sorted == SortRooms(loadedRooms.items)
                 idx    == IF s.currentRoom = Null THEN 0
                           ELSE FindIndex(sorted, s.currentRoom.id)
             IN  [s EXCEPT !.rooms = sorted,
                           !.currentRoom = IF idx > 0 THEN sorted[idx]
                                           ELSE IF @ # Null /\ sorted # << >> THEN sorted[1]
                                           ELSE @]

\* loadRooms() run in App state s on blob b; sort() of a value that is not an
\* array throws and the state stays as it was
LoadRooms(s, b) ==
    LET loadedRooms == GetRooms(b)
    IN  IF ArrayError(loadedRooms) # "none" THEN s
        ELSE LET sorted == SortRooms(loadedRooms.items)
                 idx    == IF s.currentRoom = Null THEN 0
                           ELSE FindIndex(sorted, s.currentRoom.id)
             IN  [s EXCEPT !.rooms = sorted,
                           !.currentRoom = IF idx > 0 THEN sorted[idx] ELSE @]

\* the listeners of this tab run for each event the call dispatched
RECURSIVE Dispatch(_, _, _)
Dispatch(s, b, trace) ==
    IF trace = << >> THEN s
    ELSE Dispatch(IF Head(trace) \in {"storage", "storage-local"}
                  THEN LoadRooms(s, b) ELSE s,
                  b, Tail(trace))

\* the record of the n-th repository call, made by a handler of tab t
CallBy(t, op, roomId, arg, o) ==
    [op |-> op, roomId |-> roomId, arg |-> arg, raised |-> o.raised, by |-> t,
     n |-> call.n + 1]

\* the tab shows the chat view
InRoom(s) == s.currentRoom # Null /\ s.currentUser # Null

\* the tab shows the room list and no prompt over it
Browsing(s) == ~InRoom(s) /\ s.joinModalRoom = Null

\* tab t may still run a handler that calls the store
CanAct(t) == call.n < MaxActs

AppInit ==
    /\ blob = JSONStringify(JSArray(StartRooms))
    /\ call = [op |-> "none", roomId |-> Undefined, arg |-> NoArg, raised |-> "none",
               by |-> Undefined, n |-> 0]
    /\ tab = [t \in Tabs |->
                LoadRooms(AppState(<< >>, Null, Null, Null, FALSE, FALSE, FALSE), blob)]

\* a handler of tab t that called the store ends in App state s with outcome
\* o of its call: the other tabs get the browser's 'storage' event when the
\* item changed
Handled(t, s, rec, o) ==
    /\ blob' = o.blob
    /\ call' = rec
    /\ tab' = [u \in Tabs |->
                 IF u = t THEN s
                 ELSE IF o.blob # blob THEN [tab[u] EXCEPT !.signal = TRUE]
                 ELSE tab[u]]

\* a handler of tab t that made no call ends in App state s
Shown(t, s) ==
    /\ tab' = [tab EXCEPT ![t] = s]
    /\ UNCHANGED <<blob, call>>

\* AdminLoginModal.handleSubmit
AdminLogin(t) ==
    \E pin \in PinsOf(t) :
        /\ Browsing(tab[t])
        /\ ~tab[t].isAdminMode
        /\ Shown(t, IF pin = "331133" THEN [tab[t] EXCEPT !.isAdminMode = TRUE] ELSE tab[t])

\* the 'Exit Admin' button
ExitAdmin(t) ==
    /\ Browsing(tab[t])
    /\ tab[t].isAdminMode
    /\ Shown(t, [tab[t] EXCEPT !.isAdminMode = FALSE])

\* the session of an admin
AdminSession == [username |-> BotName, role |-> UserRole.ADMIN]

\* handleJoinRoom(room) that opens the join prompt for an admin too
JoinRoomPrompt(s, room) == [s EXCEPT !.joinModalRoom = room]

\* handleJoinRoom(room) that lets an admin in directly only when the room has
\* no password
JoinRoomAskPassword(s, room) ==
    IF s.isAdminMode /\ ~TruthyPassword(Field(room, "password"))
    THEN [s EXCEPT !.currentUser = AdminSession, !.currentRoom = room]
    ELSE [s EXCEPT !.joinModalRoom = room]

\* handleJoinRoom(room) in App state s
JoinRoom(s, room) ==
    IF s.isAdminMode
    THEN [s EXCEPT !.currentUser = AdminSession, !.currentRoom = room]
    ELSE [s EXCEPT !.joinModalRoom = room]

\* the user of tab t clicks the i-th room of the list
Select(t, i) ==
    /\ Browsing(tab[t])
    /\ i \in DOMAIN tab[t].rooms
    /\ Shown(t, JoinRoom(tab[t], tab[t].rooms[i]))

HandleJoinRoom(t) == \E i \in DOMAIN tab[t].rooms : Select(t, i)

\* confirmJoin(nickname, password) in App state s
ConfirmJoin(s, nickname, password) ==
    IF s.joinModalRoom # Null
    THEN [s EXCEPT !.currentUser = [username |-> nickname, role |-> UserRole.PARTICIPANT],
                   !.currentRoom = s.joinModalRoom,
                   !.joinModalRoom = Null,
                   !.joinError = FALSE]
    ELSE s

\* a check that asks only that some password was typed for a private room
PasswordAnyTyped(room, password) ==
    ~(TruthyPassword(Field(room, "password")) /\ password = "")

\* the password check of the join prompt lets the submission through
PasswordAccepted(room, password) ==
    ~(TruthyPassword(Field(room, "password")) /\ Field(room, "password") # password)

\* handleSubmit that tests `!nickname` without trim(): ' ' gets through
HandleSubmitNoTrim(s, nickname, password) ==
    IF nickname = << >> THEN s
    ELSE IF ~PasswordAccepted(s.joinModalRoom, password) THEN [s EXCEPT !.joinError = TRUE]
    ELSE ConfirmJoin(s, nickname, password)

\* JoinRoomModal.handleSubmit with the nickname and password typed (typing
\* a password clears the error; the submission sets it again on a mismatch)
HandleSubmit(s, nickname, password) ==
    IF Blank(nickname) THEN s
    ELSE IF ~PasswordAccepted(s.joinModalRoom, password) THEN [s EXCEPT !.joinError = TRUE]
    ELSE ConfirmJoin(s, nickname, password)

\* the user of tab t submits the join prompt with this nickname and password
Submit(t, nickname, password) ==
    /\ tab[t].joinModalRoom # Null
    /\ Shown(t, HandleSubmit(tab[t], nickname, password))

SubmitJoin(t) ==
    \E nickname \in NicknamesOf(t), password \in Passwords : Submit(t, nickname, password)

\* onClose of the join prompt
CloseJoin(t) ==
    /\ tab[t].joinModalRoom # Null
    /\ Shown(t, [tab[t] EXCEPT !.joinModalRoom = Null, !.joinError = FALSE])

\* handleExitRoom
HandleExitRoom(t) ==
    /\ InRoom(tab[t])
    /\ Shown(t, [tab[t] EXCEPT !.currentRoom = Null, !.currentUser = Null])

\* the 'storage' event of another tab's write is handled: loadRooms()
StorageEvent(t) ==
    /\ tab[t].signal
    /\ Shown(t, LoadRooms([tab[t] EXCEPT !.signal = FALSE], blob))

\* handleCreateRoom(title, password), called by the 'New Room' form
HandleCreateRoom(t) ==
    \E id \in RoomIds, mid \in SysMsgIds, a \in FormArgs :
        /\ Browsing(tab[t])
        /\ tab[t].isAdminMode
        /\ CanAct(t)
        /\ CanGrow(blob) \/ HasRoom(blob, id)
        /\ LET o == CreateRoom(blob, id, mid, a.title, a.password, a.now)
               s == Dispatch(tab[t], o.blob, o.trace)
           IN  Handled(t, IF o.raised # "none" THEN s
                          ELSE [s EXCEPT !.currentUser = AdminSession,
                                         !.currentRoom = o.ret.room],
                       CallBy(t, "createRoom", Undefined, a, o), o)

\* handleDeleteRoom(e, roomId) with the confirmation accepted
HandleDeleteRoom(t) ==
    \E i \in DOMAIN tab[t].rooms :
        /\ Browsing(tab[t])
        /\ tab[t].isAdminMode
        /\ CanAct(t)
        /\ LET roomId == tab[t].rooms[i].id
               o      == DeleteRoom(blob, roomId)
               s      == Dispatch(tab[t], o.blob, o.trace)
           IN  Handled(t, IF o.raised # "none" THEN s
                          ELSE [s EXCEPT !.rooms = SelectSeq(@, LAMBDA r : r.id # roomId)],
                       CallBy(t, "deleteRoom", roomId, NoArg, o), o)

\* a message built with the text trimmed
NewMessageTrimmed(t, session, text) ==
    [id |-> MsgOf(t).id, senderName |-> session.username, role |-> session.role,
     text |-> Trim(text), timestamp |-> MsgOf(t).timestamp, type |-> "text"]

\* the message handleSendMessage builds from the input text
NewMessage(t, session, text) ==
    [id |-> MsgOf(t).id, senderName |-> session.username, role |-> session.role,
     text |-> text, timestamp |-> MsgOf(t).timestamp, type |-> "text"]

\* ChatInterface.handleSendMessage in tab t with this text in the input
Send(t, text) ==
    /\ InRoom(tab[t])
    /\ IF Blank(text) THEN Shown(t, tab[t])
       ELSE /\ CanAct(t)
            /\ CanGrow(blob) \/ ~HasRoom(blob, tab[t].currentRoom.id)
            /\ LET roomId  == tab[t].currentRoom.id
                   message == NewMessage(t, tab[t].currentUser, text)
                   o       == AddMessage(blob, roomId, message)
                   s       == Dispatch(tab[t], o.blob, o.trace)
               IN  Handled(t, IF o.raised # "none" THEN s ELSE LoadRooms(s, o.blob),
                           CallBy(t, "addMessage", roomId, [message |-> message], o), o)

HandleSendMessage(t) == \E text \in TypedOf(t) : Send(t, text)

\* the controls shown to every session
IsAnySession(s) == s.currentUser # Null

\* the chat view of the session shows the admin's controls
IsAdmin(s) == s.currentUser.role = UserRole.ADMIN

\* the memo handleAddMemo builds from the title and content typed
NewMemo(t, in) ==
    [id |-> MemoOf(t).id, title |-> in.title, content |-> in.content,
     createdAt |-> MemoOf(t).createdAt]

\* ChatInterface.handleAddMemo, reached from the add-plan panel of an admin
HandleAddMemo(t) ==
    \E in \in MemoInputs :
        /\ InRoom(tab[t])
        /\ IsAdmin(tab[t])
        /\ IF Blank(in.title) \/ Blank(in.content) THEN Shown(t, tab[t])
           ELSE /\ CanAct(t)
                /\ CanGrow(blob) \/ ~HasRoom(blob, tab[t].currentRoom.id)
                /\ LET roomId == tab[t].currentRoom.id
                       memo   == NewMemo(t, in)
                       o      == AddMemo(blob, roomId, memo)
                       s      == Dispatch(tab[t], o.blob, o.trace)
                   IN  Handled(t, IF o.raised # "none" THEN s ELSE LoadRooms(s, o.blob),
                               CallBy(t, "addMemo", roomId, [memo |-> memo], o), o)

\* ChatInterface.handleDeleteMemo(memoId), reached from the delete button an
\* admin sees on each memo of the room shown
HandleDeleteMemo(t) ==
    \E k \in MemoIds :
        /\ InRoom(tab[t])
        /\ IsAdmin(tab[t])
        /\ \E i \in DOMAIN tab[t].currentRoom.memos : tab[t].currentRoom.memos[i].id = k
        /\ CanAct(t)
        /\ LET roomId == tab[t].currentRoom.id
               o      == DeleteMemo(blob, roomId, k)
               s      == Dispatch(tab[t], o.blob, o.trace)
           IN  Handled(t, IF o.raised # "none" THEN s ELSE LoadRooms(s, o.blob),
                       CallBy(t, "deleteMemo", roomId, [memoId |-> k], o), o)

AppNext ==
    \E t \in Tabs :
        \/ AdminLogin(t)
        \/ ExitAdmin(t)
        \/ HandleJoinRoom(t)
        \/ SubmitJoin(t)
        \/ CloseJoin(t)
        \/ HandleExitRoom(t)
        \/ HandleCreateRoom(t)
        \/ HandleDeleteRoom(t)
        \/ HandleSendMessage(t)
        \/ HandleAddMemo(t)
        \/ HandleDeleteMemo(t)
        \/ StorageEvent(t)

AppSpec == AppInit /\ [][AppNext]_vars

(* ------------- TypingSpec: the typing flag of ChatInterface ------------ *)

\* Two tabs show components/ChatInterface.tsx on the first room, each for its
\* own session. tab[t] holds the state of the component in tab t:
\*   room, session     the props
\*   inputText         the text of the message input
\*   isMeTyping        the local typing state
\*   typingTimeoutRef  the id setTimeout last returned, or null
\*   timers            the ids of the timeouts of this tab that are pending
\*   nextTimer         the id the next setTimeout returns
\*   mounted           the component is shown
\* setTypingStatus is imported from the store, which does not define it; it
\* follows the description of the repository operations.

\* characters that are stripped from a username to make its key
UnsafeChars == { ".", "#", "$", "/", "[", "]" }

\* the key of a username in the typing map
SanitizeKey(username) == SelectSeq(username, LAMBDA c : c \notin UnsafeChars)

\* the typing map of a room ({} when the room has none yet)
TypingOf(room) == IF "typing" \in DOMAIN room THEN room.typing ELSE << >>

\* the room with `value` put under `key` in its typing map
UpsertTyping(room, key, value) ==
    [k \in DOMAIN room \cup {"typing"} |->
        IF k = "typing"
        THEN [u \in DOMAIN TypingOf(room) \cup {key} |->
                 IF u = key THEN value ELSE TypingOf(room)[u]]
        ELSE room[k]]

\* setTypingStatus(roomId, username, isTyping): load the collection, locate
\* the room by id, upsert the flag, save the collection and notify
SetTypingStatus(b, roomId, username, isTyping) ==
    LET rooms == GetRooms(b)
        error == ArrayError(rooms)
    IN  IF error # "none" THEN Outcome(b, NoValue, error, << "getItem" >>)
        ELSE LET idx == FindIndex(rooms.items, roomId)
             IN  IF idx = 0 THEN NotFound(b)
                 ELSE LET room == UpsertTyping(rooms.items[idx], SanitizeKey(username),
                                               isTyping)
                      IN  Outcome(JSONStringify(JSArray([rooms.items EXCEPT ![idx] = room])),
                                  NoValue, "none",
                                  << "getItem", "setItem" >> \o NotifyChanges)

\* the session of each tab: the admin in tab A, the participant 'B.o' in tab B
SessionOf(t) ==
    IF t = "A" THEN AdminSession
    ELSE [username |-> << "B", ".", "o" >>, role |-> UserRole.PARTICIPANT]

\* what the input holds after a change
InputValues == { << >>, << " " >>, << "h", "i" >> }

ChatState(room, session, inputText, isMeTyping, typingTimeoutRef, timers, nextTimer, mounted) ==
    [room |-> room, session |-> session, inputText |-> inputText,
     isMeTyping |-> isMeTyping, typingTimeoutRef |-> typingTimeoutRef,
     timers |-> timers, nextTimer |-> nextTimer, mounted |-> mounted]

TypingInit ==
    /\ blob = JSONStringify(JSArray(StartRooms))
    /\ call = [op |-> "none", roomId |-> Undefined, arg |-> NoArg, raised |-> "none",
               by |-> Undefined, n |-> 0]
    /\ tab = [t \in Tabs |->
                ChatState(StartRooms[1].id, SessionOf(t), << >>, FALSE, Null, {}, 1, TRUE)]

\* the record of a setTypingStatus call of tab t
TypingCall(t, isTyping, o, n) ==
    [op |-> "setTypingStatus", roomId |-> tab[t].room,
     arg |-> [username |-> tab[t].session.username, isTyping |-> isTyping],
     raised |-> o.raised, by |-> t, n |-> n]

\* clearTimeout(id): a pending timeout is cancelled; null and ids of
\* timeouts that have run are ignored
ClearTimeout(timers, id) == timers \ {id}

\* handleInputChange that starts a timeout without cancelling the one before
InputChangeKeepTimer(s, value) ==
    IF ~Blank(value)
    THEN [s EXCEPT !.inputText = value, !.isMeTyping = TRUE,
                   !.timers = @ \cup {s.nextTimer},
                   !.typingTimeoutRef = s.nextTimer,
                   !.nextTimer = @ + 1]
    ELSE [s EXCEPT !.inputText = value, !.isMeTyping = FALSE,
                   !.timers = ClearTimeout(@, s.typingTimeoutRef)]

\* handleInputChange, the part on the state of the component
InputChange(s, value) ==
    IF ~Blank(value)
    THEN [s EXCEPT !.inputText = value, !.isMeTyping = TRUE,
                   !.timers = ClearTimeout(@, s.typingTimeoutRef) \cup {s.nextTimer},
                   !.typingTimeoutRef = s.nextTimer,
                   !.nextTimer = @ + 1]
    ELSE [s EXCEPT !.inputText = value, !.isMeTyping = FALSE,
                   !.timers = ClearTimeout(@, s.typingTimeoutRef)]

\* handleInputChange(e) with e.target.value = value
HandleInputChange(t) ==
    \E value \in InputValues :
        /\ tab[t].mounted
        /\ call.n < MaxKeys
        /\ LET o == SetTypingStatus(blob, tab[t].room, tab[t].session.username, ~Blank(value))
           IN  /\ blob' = o.blob
               /\ call' = TypingCall(t, ~Blank(value), o, call.n + 1)
               /\ tab' = [tab EXCEPT ![t] = InputChange(tab[t], value)]

\* the callback of setTimeout(..., 3000) runs
TypingTimeout(t) ==
    \E id \in tab[t].timers :
        LET o == SetTypingStatus(blob, tab[t].room, tab[t].session.username, FALSE)
        IN  /\ blob' = o.blob
            /\ call' = TypingCall(t, FALSE, o, call.n)
            /\ tab' = [tab EXCEPT ![t].timers = @ \ {id}, ![t].isMeTyping = FALSE]

\* handleSendMessage of components/ChatInterface.tsx
SendAndClearTyping(t) ==
    /\ tab[t].mounted
    /\ ~Blank(tab[t].inputText)
    /\ call.n < MaxKeys
    /\ CanGrow(blob)
    /\ LET o1 == SetTypingStatus(blob, tab[t].room, tab[t].session.username, FALSE)
           o2 == AddMessage(o1.blob, tab[t].room,
                            NewMessage(t, tab[t].session, tab[t].inputText))
       IN  /\ blob' = o2.blob
           /\ call' = TypingCall(t, FALSE, o1, call.n + 1)
           /\ tab' = [tab EXCEPT ![t].isMeTyping = FALSE,
                                 ![t].timers = ClearTimeout(@, tab[t].typingTimeoutRef),
                                 ![t].inputText = << >>]

\* the cleanup of the effect on [room.id, session.username], run when the
\* component is unmounted
UnmountCleanup(t) ==
    /\ tab[t].mounted
    /\ LET o == SetTypingStatus(blob, tab[t].room, tab[t].session.username, FALSE)
       IN  /\ blob' = o.blob
           /\ call' = TypingCall(t, FALSE, o, call.n)
           /\ tab' = [tab EXCEPT ![t].mounted = FALSE,
                                 ![t].isMeTyping = FALSE,
                                 ![t].timers = ClearTimeout(@, tab[t].typingTimeoutRef)]

TypingNext ==
    \E t \in Tabs :
        \/ HandleInputChange(t)
        \/ TypingTimeout(t)
        \/ SendAndClearTyping(t)
        \/ UnmountCleanup(t)

\* a pending timeout runs: the event loop of a tab does not starve its timers
TypingFair == \A t \in Tabs : WF_vars(TypingTimeout(t))

TypingSpec == TypingInit /\ [][TypingNext]_vars /\ TypingFair

(* ------------------------- properties under Spec ----------------------- *)

\* the blob is absent, empty, malformed or the JSON text of an array: what
\* getRooms() reads as a collection of rooms
IsCollection(b) == IsArray(GetRooms(b))

RoomFields == {"id", "title", "password", "messages", "memos", "createdAt", "createdBy"}

\* two rooms whose every property reads the same
SameContent(a, b) == \A k \in RoomFields : Field(a, k) = Field(b, k)

\* C1: on a collection that has room r, addMessage(r, m) completes and the
\* next getRooms() returns room r with the messages it had before, in the
\* same order, followed by m.
AddMessageAppends ==
    [][ (call'.op = "addMessage" /\ HasRoom(blob, call'.roomId))
        => /\ call'.raised = "none"
           /\ HasRoom(blob', call'.roomId)
           /\ RoomOf(blob', call'.roomId).messages
                = Append(RoomOf(blob, call'.roomId).messages, call'.arg.message) ]_vars

\* C1 witness: an addMessage completed on a room that already had a message
\* after its banner, and the room read back has three or more messages
AddMessageAppended ==
    /\ call.op = "addMessage"
    /\ HasRoom(blob, call.roomId)
    /\ Len(RoomOf(blob, call.roomId).messages) >= 3
    /\ RoomOf(blob, call.roomId).messages[2] # call.arg.message

\* C3: after deleteRoom(r) getRooms() returns no room with id r, and on every
\* collection deleteRoom(r) completes.
DeleteRoomRemoves ==
    call.op = "deleteRoom"
        => /\ ~HasRoom(blob, call.roomId)
           /\ IsCollection(blob) => call.raised = "none"

\* C3 witness: a deleteRoom completed and left another room in the collection
DeleteRoomLeftOthers ==
    /\ call.op = "deleteRoom"
    /\ call.raised = "none"
    /\ Loaded(blob) # << >>

\* C4: the id of the room createRoom returns is not the id of a room that is
\* already in the collection.
CreateRoomIdIsFresh ==
    [][ (call'.op = "createRoom" /\ call'.raised = "none")
        => ~HasRoom(blob, call'.ret.room.id) ]_vars

\* C5: addMessage, addMemo and deleteMemo with a room id that is not in the
\* collection raise nothing, leave the blob as it was and perform no write and
\* no event: their one storage access is the getItem of getRooms().
MissingRoomIsNoOp ==
    [][ ( /\ call'.op \in {"addMessage", "addMemo", "deleteMemo"}
          /\ IsCollection(blob)
          /\ ~HasRoom(blob, call'.roomId) )
        => /\ call'.raised = "none"
           /\ blob' = blob
           /\ call'.trace = << "getItem" >> ]_vars

\* C5 witness: one of the three calls completed with an id that the non-empty
\* collection does not hold
MissingRoomCalled ==
    /\ call.op \in {"addMessage", "addMemo", "deleteMemo"}
    /\ Loaded(blob) # << >>
    /\ ~HasRoom(blob, call.roomId)
    /\ call.raised = "none"

\* C6: getRooms() raises nothing, and returns an empty array when there is no
\* item and when the item is not JSON text.
GetRoomsNeverRaises ==
    call.op = "getRooms"
        => /\ call.raised = "none"
           /\ blob.kind \in {"absent", "malformed"} => call.ret = EmptyArray

\* C6 witness: getRooms() returned [] on an item that is not JSON text
GetRoomsOnMalformed ==
    /\ call.op = "getRooms"
    /\ blob.kind = "malformed"
    /\ call.ret = EmptyArray

\* C7: no call raises, whatever the blob holds.
NoCallRaises == call.raised = "none"

\* C8: a deleteMemo(r, id) that repeats the call before it leaves the blob as
\* that call left it.
DeleteMemoIdempotent ==
    [][ (call'.op = "deleteMemo" /\ call'.again) => blob' = blob ]_vars

\* C8 witness: a second identical deleteMemo wrote a room that still has memos
DeleteMemoRepeated ==
    /\ call.op = "deleteMemo"
    /\ call.again
    /\ HasRoom(blob, call.roomId)
    /\ RoomOf(blob, call.roomId).memos # << >>
    /\ "setItem" \in { call.trace[i] : i \in DOMAIN call.trace }

\* C9: in the accesses and events of a call, every setItem is followed at once
\* by the 'storage' event and then the 'storage-local' event.
WriteThenNotify ==
    \A i \in DOMAIN call.trace :
        call.trace[i] = "setItem"
            => /\ i + 2 <= Len(call.trace)
               /\ call.trace[i + 1] = "storage"
               /\ call.trace[i + 2] = "storage-local"

\* C9 witness: a saveRoom or deleteRoom call performed a setItem
WroteAndNotified ==
    /\ call.op \in {"saveRoom", "deleteRoom"}
    /\ \E i \in DOMAIN call.trace : call.trace[i] = "setItem"

\* C10: createRoom completes on every collection; the room it returns has one
\* message, of type 'system', whose text is the banner of the day of the call,
\* no memos and createdBy 'AI Bot', and the next getRooms() holds a room with
\* the same content.
CreateRoomResult ==
    call.op = "createRoom"
        => /\ IsCollection(blob) => call.raised = "none"
           /\ call.raised = "none" =>
                LET room == call.ret.room
                    now  == call.arg.now
                IN  /\ Len(room.messages) = 1
                    /\ room.messages[1].type = "system"
                    /\ room.messages[1].text
                         = << now.year, "Y", now.month + 1, "M", now.date, "D" >>
                    /\ room.memos = << >>
                    /\ room.createdBy = "AI Bot"
                    /\ room.title = call.arg.title
                    /\ \E i \in DOMAIN Loaded(blob) : SameContent(Loaded(blob)[i], room)

\* C10 witness: createRoom without a password returned the second room of the
\* collection
CreateRoomReturned ==
    /\ call.op = "createRoom"
    /\ call.raised = "none"
    /\ call.arg.password = Undefined
    /\ Len(Loaded(blob)) = 2

\* C14: saveRoom(x) for a room x that getRooms() returned completes and
\* leaves the collection getRooms() returns as it was: the same rooms, in the
\* same order, each with the same content.
SaveLoadedChangesNothing ==
    [][ call'.op = "saveRoom"
        => /\ call'.raised = "none"
           /\ Loaded(blob') = Loaded(blob) ]_vars

\* C14 witness: saveRoom completed for the second of two rooms, one that has
\* no password, and wrote the collection
SavedSecondRoom ==
    /\ call.op = "saveRoom"
    /\ Len(Loaded(blob)) = 2
    /\ Loaded(blob)[2].id = call.roomId
    /\ Field(Loaded(blob)[2], "password") = Undefined
    /\ \E i \in DOMAIN call.trace : call.trace[i] = "setItem"

\* the rooms of the list have pairwise distinct ids
DistinctIds(items) == Cardinality(IdsIn(items)) = Len(items)

\* the room a completed saveRoom or createRoom call handed to saveRoom
SavedRoom(c) == IF c.op = "createRoom" THEN c.ret.room ELSE c.arg.room

\* C22: a call on a collection with pairwise distinct ids leaves one with
\* pairwise distinct ids; a saveRoom (alone or inside createRoom) puts its
\* room at the place of the room with the same id or, when there is none, at
\* the end, and every other room keeps its place and content.
IdsStayDistinct ==
    /\ [](DistinctIds(Loaded(blob)))
    /\ [][ (call'.op \in {"saveRoom", "createRoom"} /\ call'.raised = "none")
             => LET old  == Loaded(blob)
                    new  == Loaded(blob')
                    room == SavedRoom(call')
                    at   == { i \in DOMAIN old : old[i].id = room.id }
                IN  /\ Len(new) = Len(old) + (IF at = {} THEN 1 ELSE 0)
                    /\ \A i \in DOMAIN old :
                          IF i \in at THEN SameContent(new[i], room) ELSE new[i] = old[i]
                    /\ at = {} => SameContent(new[Len(new)], room) ]_vars

\* C22 witness: createRoom drew the id of the first of two rooms and its room
\* is now the first of the two
ReplacedFirstOfTwo ==
    /\ call.op = "createRoom"
    /\ call.raised = "none"
    /\ Len(Loaded(blob)) = 2
    /\ DistinctIds(Loaded(blob))
    /\ SameContent(Loaded(blob)[1], call.ret.room)

\* the fields of a room that no call changes after createRoom
FixedFields == {"id", "title", "password", "createdAt", "createdBy"}

\* C23: addMessage, addMemo and deleteMemo on room r leave every other room of
\* the collection as it was, each at its place, and leave the id, title,
\* password, createdAt and createdBy of r as they were; addMessage leaves the
\* memos of r and addMemo and deleteMemo leave the messages of r as they were.
OnlyTheListChanges ==
    [][ (call'.op \in {"addMessage", "addMemo", "deleteMemo"} /\ call'.raised = "none")
          => LET old == Loaded(blob)
                 new == Loaded(blob')
                 r   == call'.roomId
             IN  /\ Len(new) = Len(old)
                 /\ \A i \in DOMAIN old :
                       IF old[i].id # r THEN new[i] = old[i]
                       ELSE /\ \A k \in FixedFields : Field(new[i], k) = Field(old[i], k)
                            /\ call'.op = "addMessage" => new[i].memos = old[i].memos
                            /\ call'.op \in {"addMemo", "deleteMemo"}
                                 => new[i].messages = old[i].messages ]_vars

\* C23 witness: an addMessage appended to a room that has a memo and a
\* password, next to another room
AddedBesideMemos ==
    /\ call.op = "addMessage"
    /\ call.raised = "none"
    /\ Len(Loaded(blob)) = 2
    /\ HasRoom(blob, call.roomId)
    /\ RoomOf(blob, call.roomId).memos # << >>
    /\ Field(RoomOf(blob, call.roomId), "password") # Undefined
    /\ LET ms == RoomOf(blob, call.roomId).messages
       IN  Len(ms) >= 2 /\ ms[Len(ms)] = call.arg.message

\* C24: deleteRoom(id) leaves exactly the rooms whose id is not id, each with
\* the content it had and in the order they were in; when no room has the id
\* the rooms of the collection are as they were.
DeleteRoomKeepsOthers ==
    [][ (call'.op = "deleteRoom" /\ call'.raised = "none")
          => LET old  == Loaded(blob)
                 new  == Loaded(blob')
                 keep == { i \in DOMAIN old : old[i].id # call'.roomId }
             IN  /\ Len(new) = Cardinality(keep)
                 /\ \A i \in keep : new[Cardinality({ j \in keep : j <= i })] = old[i]
                 /\ ~HasRoom(blob, call'.roomId) => new = old ]_vars

\* C24 witness: a deleteRoom that repeats the call before it, so that no room
\* had the id, has left a room with a message after its banner
DeletedAgainKeptOther ==
    /\ call.op = "deleteRoom"
    /\ call.raised = "none"
    /\ call.again
    /\ Len(Loaded(blob)) = 1
    /\ Len(Loaded(blob)[1].messages) >= 2

\* the outcome the completed call c has when it is made on blob b
Replay(c, b) ==
    CASE c.op = "getRooms"   -> Outcome(b, GetRooms(b), "none", << "getItem" >>)
      [] c.op = "saveRoom"   -> SaveRoom(b, c.arg.room)
      [] c.op = "deleteRoom" -> DeleteRoom(b, c.roomId)
      [] c.op = "createRoom" -> CreateRoom(b, c.ret.room.id, c.ret.room.messages[1].id,
                                           c.arg.title, c.arg.password, c.arg.now)
      [] c.op = "addMessage" -> AddMessage(b, c.roomId, c.arg.message)
      [] c.op = "addMemo"    -> AddMemo(b, c.roomId, c.arg.memo)
      [] c.op = "deleteMemo" -> DeleteMemo(b, c.roomId, c.arg.memoId)

\* C25: a call made on an item that is not JSON text raises nothing and
\* returns, performs and leaves in the collection what the same call does on
\* the item '[]': getRooms returns [], addMessage, addMemo and deleteMemo
\* write nothing, deleteRoom leaves '[]' and createRoom leaves its room alone.
MalformedIsEmpty ==
    [][ blob = MalformedText
          => LET o == Replay(call', JsonText(EmptyArray))
             IN  /\ call'.raised = "none"
                 /\ call'.ret = o.ret
                 /\ call'.trace = o.trace
                 /\ Loaded(blob') = Loaded(o.blob)
                 /\ blob' # blob => blob' = o.blob
                 /\ call'.op = "getRooms" => call'.ret = EmptyArray
                 /\ call'.op \in {"addMessage", "addMemo", "deleteMemo"} => blob' = blob
                 /\ call'.op = "deleteRoom" => blob' = JsonText(EmptyArray)
                 /\ call'.op = "createRoom"
                      => /\ Len(Loaded(blob')) = 1
                         /\ SameContent(Loaded(blob')[1], call'.ret.room) ]_vars

\* C25 witness: an addMemo completed on the item that is not JSON text and
\* left it as it was
AddMemoOnMalformed ==
    /\ blob = MalformedText
    /\ call.op = "addMemo"
    /\ call.raised = "none"
    /\ call.trace = << "getItem" >>

(* ----------------------- properties under MemoSpec --------------------- *)

\* the memos of a list whose id is not `id`, in the order of the list
RECURSIVE Without(_, _)
Without(memos, id) ==
    IF memos = << >> THEN << >>
    ELSE (IF Head(memos).id = id THEN << >> ELSE << Head(memos) >>)
         \o Without(Tail(memos), id)

\* C13: addMemo(r, memo) on a room that is in the collection leaves the memos
\* it had, in their order, followed by memo; deleteMemo(r, id) leaves the
\* memos whose id is not id, each as it was and in their order.
MemosKeepOrder ==
    [][ HasRoom(blob, call'.roomId)
        => /\ call'.op = "addMemo"
                => /\ HasRoom(blob', call'.roomId)
                   /\ RoomOf(blob', call'.roomId).memos
                        = Append(RoomOf(blob, call'.roomId).memos, call'.arg.memo)
           /\ call'.op = "deleteMemo"
                => /\ HasRoom(blob', call'.roomId)
                   /\ RoomOf(blob', call'.roomId).memos
                        = Without(RoomOf(blob, call'.roomId).memos, call'.arg.memoId) ]_vars

\* C13 witness: a deleteMemo has left two memos that differ in a room, the
\* later-made one after the other
DeleteMemoKeptTwo ==
    /\ call.op = "deleteMemo"
    /\ ~call.again
    /\ HasRoom(blob, call.roomId)
    /\ Len(RoomOf(blob, call.roomId).memos) = 2
    /\ RoomOf(blob, call.roomId).memos[1].id = "k3"
    /\ RoomOf(blob, call.roomId).memos[2].id = "k1"
    /\ call.arg.memoId = "k2"
    /\ \E i \in DOMAIN call.trace : call.trace[i] = "setItem"

(* ----------------------- properties under ConcSpec --------------------- *)

\* list a is the beginning of list b
IsPrefix(a, b) == Len(a) <= Len(b) /\ SubSeq(b, 1, Len(a)) = a

\* C12: while a room stays in the collection, the messages it has after a
\* write begin with the messages it had before the write.
MessagesOnlyGrow ==
    [][ \A r \in RoomIds :
          (HasRoom(blob, r) /\ HasRoom(blob', r))
            => IsPrefix(RoomOf(blob, r).messages, RoomOf(blob', r).messages) ]_vars


\* tab u performs the setItem of its saveRoom in this step
SaveWrites(u) == tab[u].pc = "save_write" /\ tab'[u].pc = "idle"

\* C2: when a tab writes after another tab has written since its getRooms()
\* (both had read before either wrote), its write raises nothing and puts
\* every room other than the one it saves back to what it had read, so what
\* the other tab changed in its own room is gone.
StaleWriteOverwrites ==
    [][ \A u \in Tabs :
          (SaveWrites(u) /\ tab[u].stale)
            => /\ tab'[u].result = "ok"
               /\ \A x \in RoomIds \ {tab[u].room.id} :
                     RoomsWithId(Loaded(blob'), x) = RoomsWithId(tab[u].rooms, x) ]_vars

\* C2 witness: both tabs completed an addMessage on different rooms without an
\* error, and the message of the tab that wrote first is not in the collection
UpdateLost ==
    \E t \in Tabs, u \in Tabs :
        /\ t # u
        /\ tab[t].pc = "idle" /\ tab[u].pc = "idle"
        /\ tab[t].op = "addMessage" /\ tab[u].op = "addMessage"
        /\ tab[t].result = "ok" /\ tab[u].result = "ok"
        /\ tab[t].roomId # tab[u].roomId
        /\ tab[u].stale
        /\ HasRoom(blob, tab[t].roomId) /\ HasRoom(blob, tab[u].roomId)
        /\ \A i \in DOMAIN RoomOf(blob, tab[t].roomId).messages :
              RoomOf(blob, tab[t].roomId).messages[i] # tab[t].arg.message
        /\ \E i \in DOMAIN RoomOf(blob, tab[u].roomId).messages :
              RoomOf(blob, tab[u].roomId).messages[i] = tab[u].arg.message

\* C27: a room id that is not in the collection is not in it after any step
\* of a tab; the tabs create no rooms, so a room that was deleted stays out.
DeletedStaysDeleted ==
    [][ \A r \in RoomIds : ~HasRoom(blob, r) => ~HasRoom(blob', r) ]_vars

(* ------------------------ properties under AppSpec --------------------- *)

\* the list holds exactly the rooms of the collection
SameRooms(list, items) ==
    /\ Len(list) = Len(items)
    /\ \A i \in DOMAIN items : \E j \in DOMAIN list : list[j] = items[i]
    /\ \A j \in DOMAIN list : \E i \in DOMAIN items : items[i] = list[j]

Delivered(t) ==
    \/ tab[t].signal /\ ~tab'[t].signal
    \/ call'.n # call.n /\ call'.by = t /\ blob' # blob

\* C15: a tab that handles the change signal of a write has, after it, a room
\* list with exactly the rooms of the collection and, when it is in a room
\* whose id is in the collection, a current room with the content of that
\* room; a tab with no signal left to handle has the rooms of the collection
\* in its list.
ObserversReload ==
    [][ \A t \in Tabs :
          /\ Delivered(t)
               => /\ SameRooms(tab'[t].rooms, Loaded(blob'))
                  /\ (tab'[t].currentRoom # Null /\ HasRoom(blob', tab'[t].currentRoom.id))
                       => SameContent(tab'[t].currentRoom,
                                      RoomOf(blob', tab'[t].currentRoom.id))
          /\ ~tab'[t].signal => SameRooms(tab'[t].rooms, Loaded(blob')) ]_vars

\* C15 witness: a tab is in the room another tab sent the last message to,
\* has handled the signal and shows that message last
ObserverReloaded ==
    \E t \in Tabs, u \in Tabs :
        /\ t # u
        /\ call.op = "addMessage"
        /\ call.by = t
        /\ InRoom(tab[u])
        /\ tab[u].currentRoom.id = call.roomId
        /\ ~tab[u].signal
        /\ HasRoom(blob, call.roomId)
        /\ Len(tab[u].currentRoom.messages) >= 2
        /\ tab[u].currentRoom.messages[Len(tab[u].currentRoom.messages)] = call.arg.message

\* C16: in every step in which a tab leaves the chat view, that tab calls
\* setTypingStatus(roomId, username, false) for the room and session it leaves.
ExitClearsTyping ==
    [][ \A t \in Tabs :
          (InRoom(tab[t]) /\ ~InRoom(tab'[t]))
            => /\ call'.n = call.n + 1
               /\ call'.op = "setTypingStatus"
               /\ call'.by = t
               /\ call'.roomId = tab[t].currentRoom.id
               /\ call'.arg = [username |-> tab[t].currentUser.username, isTyping |-> FALSE] ]_vars

\* C17: without admin mode, clicking a room opens the join prompt on it and
\* does not show the chat view; a tab without admin mode gets into the chat
\* view only from the prompt, by a submission with a nickname that is not
\* blank, and then its session is a PARTICIPANT with that nickname.
VisitorJoinsThroughPrompt ==
    [][ \A t \in Tabs :
          /\ \A i \in DOMAIN tab[t].rooms :
                (Select(t, i) /\ ~tab[t].isAdminMode)
                  => /\ tab'[t].joinModalRoom = tab[t].rooms[i]
                     /\ ~InRoom(tab'[t])
          /\ (~tab[t].isAdminMode /\ ~InRoom(tab[t]) /\ InRoom(tab'[t]))
                => /\ tab[t].joinModalRoom # Null
                   /\ tab'[t].currentUser.role = UserRole.PARTICIPANT
                   /\ ~Blank(tab'[t].currentUser.username)
                   /\ \E p \in Passwords :
                         Submit(t, tab'[t].currentUser.username, p) ]_vars

\* C17 witness: a tab without admin mode is in the room without password as a
\* participant whose nickname begins with a space
VisitorInOpenRoom ==
    \E t \in Tabs :
        /\ InRoom(tab[t])
        /\ ~tab[t].isAdminMode
        /\ tab[t].currentUser.role = UserRole.PARTICIPANT
        /\ Head(tab[t].currentUser.username) = " "
        /\ ~TruthyPassword(Field(tab[t].currentRoom, "password"))

\* C18: with admin mode unlocked, clicking a room that has no password shows
\* the chat view of that room at once, with no join prompt, and the session
\* is the ADMIN 'AI Bot'.
AdminEntersDirectly ==
    [][ \A t \in Tabs :
          \A i \in DOMAIN tab[t].rooms :
             ( /\ Select(t, i)
               /\ tab[t].isAdminMode
               /\ ~TruthyPassword(Field(tab[t].rooms[i], "password")) )
               => /\ InRoom(tab'[t])
                  /\ tab'[t].joinModalRoom = Null
                  /\ tab'[t].currentRoom = tab[t].rooms[i]
                  /\ tab'[t].currentUser
                       = [username |-> << "A", "I", " ", "B", "o", "t" >>,
                          role |-> UserRole.ADMIN] ]_vars

\* C18 witness: before any call of the store, a tab in admin mode is in the
\* room without password as the admin
AdminInOpenRoom ==
    \E t \in Tabs :
        /\ call.n = 0
        /\ tab[t].isAdminMode
        /\ InRoom(tab[t])
        /\ tab[t].currentUser.role = UserRole.ADMIN
        /\ ~TruthyPassword(Field(tab[t].currentRoom, "password"))

\* C19: a send with a text that is not blank, from a session whose room is in
\* the collection, leaves that room with one message more, the last one with
\* the session's username and role, the text as typed and type 'text'; a send
\* with a blank text changes nothing.
SendAppendsOne ==
    [][ \A t \in Tabs, text \in Typed :
          Send(t, text)
            => IF Blank(text) THEN UNCHANGED vars
               ELSE HasRoom(blob, tab[t].currentRoom.id)
                      => LET r   == tab[t].currentRoom.id
                             old == RoomOf(blob, r).messages
                             new == RoomOf(blob', r).messages
                         IN  /\ HasRoom(blob', r)
                             /\ Len(new) = Len(old) + 1
                             /\ SubSeq(new, 1, Len(old)) = old
                             /\ new[Len(new)].senderName = tab[t].currentUser.username
                             /\ new[Len(new)].role = tab[t].currentUser.role
                             /\ new[Len(new)].text = text
                             /\ new[Len(new)].type = "text" ]_vars

\* C19 witness: a participant has sent a text with spaces around it and the
\* room of the collection ends with that message
ParticipantSent ==
    \E t \in Tabs :
        /\ call.op = "addMessage"
        /\ call.by = t
        /\ InRoom(tab[t])
        /\ tab[t].currentUser.role = UserRole.PARTICIPANT
        /\ HasRoom(blob, call.roomId)
        /\ LET ms == RoomOf(blob, call.roomId).messages
           IN  /\ Len(ms) >= 2
               /\ ms[Len(ms)].text = << " ", "o", "k", " " >>
               /\ ms[Len(ms)].senderName = tab[t].currentUser.username

\* C20: every call of addMemo or deleteMemo is made by a tab whose session
\* has role ADMIN, and a deleteMemo(r, id) that is called on a room of the
\* collection leaves no memo with that id in it.
MemoCallsByAdmin ==
    [][ (call'.n # call.n /\ call'.op \in {"addMemo", "deleteMemo"})
        => /\ InRoom(tab[call'.by])
           /\ tab[call'.by].currentUser.role = UserRole.ADMIN
           /\ (call'.op = "deleteMemo" /\ HasRoom(blob, call'.roomId))
                => /\ HasRoom(blob', call'.roomId)
                   /\ \A i \in DOMAIN RoomOf(blob', call'.roomId).memos :
                         RoomOf(blob', call'.roomId).memos[i].id # call'.arg.memoId ]_vars

\* C20 witness: an admin has added a memo and deleted it, while the other tab
\* is in the same room as a participant
AdminDeletedMemo ==
    \E t \in Tabs, u \in Tabs :
        /\ call.op = "deleteMemo"
        /\ call.by = t
        /\ call.n = 2
        /\ InRoom(tab[t])
        /\ tab[t].currentUser.role = UserRole.ADMIN
        /\ tab[t].currentRoom.memos = << >>
        /\ InRoom(tab[u])
        /\ tab[u].currentUser.role = UserRole.PARTICIPANT
        /\ tab[u].currentRoom.id = call.roomId

\* C26: handlers run to completion, so a tab's addMessage on a room of the
\* collection, also when the tab has not yet handled the signal of another
\* tab's write, adds its message at the end of that room and leaves every
\* other room, with the messages other tabs sent to it, as it was.
WritesInTurnKeepBoth ==
    [][ (call'.n # call.n /\ call'.op = "addMessage" /\ HasRoom(blob, call'.roomId))
          => LET old == Loaded(blob)
                 new == Loaded(blob')
             IN  /\ Len(new) = Len(old)
                 /\ \A i \in DOMAIN old :
                       IF old[i].id = call'.roomId
                       THEN /\ Len(new[i].messages) = Len(old[i].messages) + 1
                            /\ SubSeq(new[i].messages, 1, Len(old[i].messages))
                                 = old[i].messages
                            /\ new[i].messages[Len(new[i].messages)] = call'.arg.message
                       ELSE new[i] = old[i] ]_vars

\* C26 witness: the message of tab A is in one room and that of tab B in
\* another, right after the second of the two was sent and before the other
\* tab has handled its signal
BothMessagesKept ==
    \E i \in DOMAIN Loaded(blob), j \in DOMAIN Loaded(blob) :
        /\ i # j
        /\ \E k \in DOMAIN Loaded(blob)[i].messages :
              Loaded(blob)[i].messages[k].id = MsgOf("A").id
        /\ \E k \in DOMAIN Loaded(blob)[j].messages :
              Loaded(blob)[j].messages[k].id = MsgOf("B").id
        /\ call.op = "addMessage"
        /\ \E t \in Tabs : t # call.by /\ tab[t].signal

\* C28: in every tab the current room and the session are both set or both
\* null, so the chat view is shown exactly when there is a session.
RoomAndSessionTogether ==
    \A t \in Tabs :
        /\ tab[t].currentRoom = Null <=> tab[t].currentUser = Null
        /\ InRoom(tab[t]) <=> tab[t].currentUser # Null

\* C28 witness: a participant is still in the chat view of a room that
\* another tab has deleted, after handling the signal of that deleteRoom
SessionOutlivesRoom ==
    \E t \in Tabs :
        /\ InRoom(tab[t])
        /\ tab[t].currentUser.role = UserRole.PARTICIPANT
        /\ ~tab[t].signal
        /\ call.op = "deleteRoom"
        /\ call.by # t
        /\ call.roomId = tab[t].currentRoom.id
        /\ ~HasRoom(blob, call.roomId)

\* C29: with admin mode unlocked, clicking a room that has a password shows
\* the chat view of that room in the same step, as the ADMIN 'AI Bot': no
\* join prompt opens, so no password is typed or compared.
AdminSkipsPassword ==
    [][ \A t \in Tabs :
          \A i \in DOMAIN tab[t].rooms :
             ( /\ Select(t, i)
               /\ tab[t].isAdminMode
               /\ TruthyPassword(Field(tab[t].rooms[i], "password")) )
               => /\ InRoom(tab'[t])
                  /\ tab'[t].joinModalRoom = Null
                  /\ ~tab'[t].joinError
                  /\ tab'[t].currentRoom = tab[t].rooms[i]
                  /\ tab'[t].currentUser.username = BotName
                  /\ tab'[t].currentUser.role = UserRole.ADMIN ]_vars

\* C29 witness: before any call of the store, a tab in admin mode is in the
\* room that has a password, as the admin
AdminInSecretRoom ==
    \E t \in Tabs :
        /\ call.n = 0
        /\ tab[t].isAdminMode
        /\ InRoom(tab[t])
        /\ TruthyPassword(Field(tab[t].currentRoom, "password"))
        /\ tab[t].currentUser = AdminSession

TypingFlag(t) ==
    LET typing == TypingOf(RoomOf(blob, tab[t].room))
        key    == SanitizeKey(tab[t].session.username)
    IN  key \in DOMAIN typing /\ typing[key]

====
